---- MODULE Spec2Model ----
(***************************************************************************)
(* FOMolt3D round settlement engine (programs/fomolt3d): the purchase      *)
(* waterfall, the lazy Active -> Ended transition, dividend / winner       *)
(* claims, the referral side-ledger and the cross-round carry-over.        *)
(*                                                                         *)
(* Every instruction is one atomic transaction: a handler that returns an  *)
(* error leaves every account as it was (the runtime discards the writes), *)
(* so a failing call is a step that changes nothing.                       *)
(*                                                                         *)
(* A participant record is modelled by its content: a record whose         *)
(* `player` field is the default key is an unregistered participant, which *)
(* is how handle_buy_keys itself tells a first purchase from a later one.  *)
(* Events, PDA bumps and the is_agent flag carry no control flow and are   *)
(* left out.  Amounts stay far below 2^64, so the checked_add /            *)
(* checked_mul steps never report Overflow inside the bounds; the one      *)
(* checked_sub that can fail on small numbers (calculate_cost) is kept.    *)
(***************************************************************************)
EXTENDS Integers, Sequences, FiniteSets, TLC

\* ---------------------------------------------------------------- bounds
MaxRounds == 3      \* rounds that may be created
MaxKeys   == 2      \* keys sold, all rounds together
MaxBuy    == 2      \* largest quantity of one purchase
MaxTime   == 4      \* the clock runs 0..MaxTime
MaxSupply == 4      \* largest key supply the pricing is evaluated at
MaxQty    == 3      \* largest quantity the pricing is evaluated for
MaxCost   == 250    \* largest cost the fee waterfall is evaluated for

\* ------------------------------------------------------ program constants
BPS_DENOMINATOR            == 10000
DEFAULT_WINNER_BPS         == 4800
DEFAULT_DIVIDEND_BPS       == 4500
DEFAULT_NEXT_ROUND_BPS     == 700
DEFAULT_PROTOCOL_FEE_BPS   == 200
DEFAULT_REFERRAL_BONUS_BPS == 1000

\* Pubkey::default(): no buyer yet / unregistered record / no referrer (None)
NoKey == 0

\* The identities that take part: two participants, the deployer who
\* becomes admin, and the protocol's fee wallet.
Players        == {1, 2}
AdminKey       == Cardinality(Players) + 1
ProtocolWallet == Cardinality(Players) + 2
AltWallet      == Cardinality(Players) + 3
Wallets        == {ProtocolWallet, AltWallet}
Rounds         == 1..MaxRounds

\* The parameter set the admin writes.  The rates are the program's
\* defaults; prices and timer lengths are scaled down so that the integer
\* divisions of the waterfall leave rounding dust and a round lasts two
\* clock ticks.
TestParams ==
    [ base_price_lamports      |-> 100,
      price_increment_lamports |-> 10,
      timer_extension_secs     |-> 1,
      max_timer_secs           |-> 2,
      winner_bps               |-> DEFAULT_WINNER_BPS,
      dividend_bps             |-> DEFAULT_DIVIDEND_BPS,
      next_round_bps           |-> DEFAULT_NEXT_ROUND_BPS,
      protocol_fee_bps         |-> DEFAULT_PROTOCOL_FEE_BPS,
      referral_bonus_bps       |-> DEFAULT_REFERRAL_BONUS_BPS,
      protocol_wallet          |-> ProtocolWallet ]

\* A write the validation must reject: the three pot rates sum to 9,900.
BadParams == [TestParams EXCEPT !.next_round_bps = 600]

\* Two more: a fee rate and a referral rate above 10,000 basis points.
BadFeeParams == [TestParams EXCEPT !.protocol_fee_bps = BPS_DENOMINATOR + 1]

BadReferralParams ==
    [TestParams EXCEPT !.referral_bonus_bps = BPS_DENOMINATOR + 1]

ParamChoices == {TestParams, BadParams, BadFeeParams, BadReferralParams}

\* A second valid parameter set that differs from the first in every
\* parameter a round snapshots: dearer keys, other rates, another fee
\* wallet, a round of one tick and an extension longer than the round.
AltParams ==
    [ base_price_lamports      |-> 200,
      price_increment_lamports |-> 20,
      timer_extension_secs     |-> 2,
      max_timer_secs           |-> 1,
      winner_bps               |-> 5000,
      dividend_bps             |-> 4000,
      next_round_bps           |-> 1000,
      protocol_fee_bps         |-> 300,
      referral_bonus_bps       |-> 500,
      protocol_wallet          |-> AltWallet ]

\* ------------------------------------------------------------------ math
Max(a, b) == IF a >= b THEN a ELSE b
Min(a, b) == IF a <= b THEN a ELSE b

\* (a batch priced at the price of its first key)
calculate_cost_flat(current_supply, keys_to_buy, base_price, price_increment) ==
    LET n    == keys_to_buy
        k    == current_supply
        term == k * 2 + n - 1
    IN  IF term < 0
        THEN [ok |-> FALSE, v |-> 0]
        ELSE [ok |-> TRUE, v |-> n * (base_price + price_increment * k)]

\* (a pricing whose subtraction is not checked)
calculate_cost_unchecked(current_supply, keys_to_buy, base_price, price_increment) ==
    LET n    == keys_to_buy
        k    == current_supply
        term == k * 2 + n - 1
    IN  [ok |-> TRUE,
         v  |-> n * base_price + (price_increment * (n * term)) \div 2]

\* math::calculate_cost: n*base + inc*n*(2k+n-1)/2, every step checked;
\* 2k + n - 1 underflows (an Overflow error) when k = 0 and n = 0.
calculate_cost(current_supply, keys_to_buy, base_price, price_increment) ==
    LET n    == keys_to_buy
        k    == current_supply
        term == k * 2 + n - 1
    IN  IF term < 0
        THEN [ok |-> FALSE, v |-> 0]
        ELSE [ok |-> TRUE,
              v  |-> n * base_price + (price_increment * (n * term)) \div 2]

\* (a split rounded up instead of down)
calculate_bps_split_roundsUp(amount, bps) ==
    (amount * bps + BPS_DENOMINATOR - 1) \div BPS_DENOMINATOR

\* math::calculate_bps_split: floor(amount * bps / 10_000)
calculate_bps_split(amount, bps) == (amount * bps) \div BPS_DENOMINATOR

\* (a dividend share rounded up instead of down)
calculate_dividend_share_roundsUp(player_keys, total_dividend_pool, total_keys) ==
    IF total_keys = 0 \/ player_keys = 0
    THEN 0
    ELSE (player_keys * total_dividend_pool + total_keys - 1) \div total_keys

\* math::calculate_dividend_share: floor(keys * pool / total_keys), 0 when
\* either count is 0
calculate_dividend_share(player_keys, total_dividend_pool, total_keys) ==
    IF total_keys = 0 \/ player_keys = 0
    THEN 0
    ELSE (player_keys * total_dividend_pool) \div total_keys

\* (a timer extension that forgets the cap)
calculate_timer_extension_uncapped(current_time, extension_secs, current_timer_end, round_start, max_timer_secs) ==
    Max(current_time + extension_secs, current_timer_end)

\* (a timer that is reset to the time of the purchase plus the extension)
calculate_timer_extension_resets(current_time, extension_secs, current_timer_end, round_start, max_timer_secs) ==
    Min(current_time + extension_secs, round_start + max_timer_secs)

\* math::calculate_timer_extension
calculate_timer_extension(current_time, extension_secs, current_timer_end, round_start, max_timer_secs) ==
    Min(Max(current_time + extension_secs, current_timer_end),
        round_start + max_timer_secs)

\* (a validation that only asks the three rates not to exceed the whole)
validate_bps_sum_atMost(winner_bps, dividend_bps, next_round_bps) ==
    winner_bps + dividend_bps + next_round_bps <= BPS_DENOMINATOR

\* math::validate_bps_sum
validate_bps_sum(winner_bps, dividend_bps, next_round_bps) ==
    winner_bps + dividend_bps + next_round_bps = BPS_DENOMINATOR

\* ----------------------------------------------------------------- state
VARIABLES
    now,              \* Clock::get().unix_timestamp
    config,           \* GlobalConfig (admin = NoKey: not created yet)
    games,            \* GameState per round: a sequence, round r at index r
    vault,            \* lamports of each round's vault PDA
    players,          \* PlayerState per identity
    protocolBalance,  \* lamports received by each fee wallet
    \* history of the run, written by the handlers' transfers and never read
    \* by them:
    grossPaid,        \* sum of `cost` over all purchases
    paidOut,          \* sum of all lamports moved from vaults to claimants
    keysBought,       \* [round][player]: keys bought in that round
    divBooked,        \* [round]: sum of dividend_amount over its purchases
    divPaid,          \* [round][player]: the dividend_shares paid, in order
    winnerPaid,       \* [round]: the players paid a winner_payout, in order
    lastNonZeroBuyer, \* [round]: buyer of the last purchase that bought keys
    refAccrued,       \* [round][player]: unclaimed referral bonus credited
                      \*                  by purchases of that round
    \* the arithmetic of math.rs and of the fee ordering, evaluated on its
    \* own:
    calc              \* the inputs, and once evaluated the outputs

ledger == <<grossPaid, paidOut, keysBought, divBooked, divPaid, winnerPaid,
            lastNonZeroBuyer, refAccrued>>
state == <<now, config, games, vault, players, protocolBalance, ledger>>
vars == <<state, calc>>

\* PlayerState of an identity that never bought
DefaultPlayer ==
    [ player                             |-> NoKey,
      keys                               |-> 0,
      current_round                      |-> 0,
      claimed_dividends_lamports         |-> 0,
      referrer                           |-> NoKey,
      referral_earnings_lamports         |-> 0,
      claimed_referral_earnings_lamports |-> 0 ]

\* GlobalConfig before create_or_update_config has run
DefaultConfig ==
    [ admin                    |-> NoKey,
      base_price_lamports      |-> 0,
      price_increment_lamports |-> 0,
      timer_extension_secs     |-> 0,
      max_timer_secs           |-> 0,
      winner_bps               |-> 0,
      dividend_bps             |-> 0,
      next_round_bps           |-> 0,
      protocol_fee_bps         |-> 0,
      referral_bonus_bps       |-> 0,
      protocol_wallet          |-> NoKey ]

\* (counters of a new round that leave the carry-over out of the winner pool)
RoundCounters_unseeded(round, carry_over) ==
    [ round               |-> round,
      pot_lamports        |-> carry_over,
      timer_end           |-> now + config.max_timer_secs,
      last_buyer          |-> NoKey,
      total_keys          |-> 0,
      round_start         |-> now,
      active              |-> TRUE,
      winner_claimed      |-> FALSE,
      total_players       |-> 0,
      total_dividend_pool |-> 0,
      next_round_pot      |-> 0,
      winner_pot          |-> 0 ]

\* The counters both initialize_first_round and start_new_round write into
\* a new GameState: everything zeroed except the two pots, which are seeded
\* with the carry-over, and the deadline, one max_timer_secs ahead.
RoundCounters(round, carry_over) ==
    [ round               |-> round,
      pot_lamports        |-> carry_over,
      timer_end           |-> now + config.max_timer_secs,
      last_buyer          |-> NoKey,
      total_keys          |-> 0,
      round_start         |-> now,
      active              |-> TRUE,
      winner_claimed      |-> FALSE,
      total_players       |-> 0,
      total_dividend_pool |-> 0,
      next_round_pot      |-> 0,
      winner_pot          |-> carry_over ]

\* (a snapshot that takes the fee rate from the program's default)
Snapshot_defaultFee(cfg) ==
    [ base_price_lamports      |-> cfg.base_price_lamports,
      price_increment_lamports |-> cfg.price_increment_lamports,
      timer_extension_secs     |-> cfg.timer_extension_secs,
      max_timer_secs           |-> cfg.max_timer_secs,
      winner_bps               |-> cfg.winner_bps,
      dividend_bps             |-> cfg.dividend_bps,
      next_round_bps           |-> cfg.next_round_bps,
      protocol_fee_bps         |-> DEFAULT_PROTOCOL_FEE_BPS,
      referral_bonus_bps       |-> cfg.referral_bonus_bps,
      protocol_wallet          |-> cfg.protocol_wallet ]

\* "Snapshot config parameters": the copy of the configuration a new
\* GameState keeps
Snapshot(cfg) ==
    [ base_price_lamports      |-> cfg.base_price_lamports,
      price_increment_lamports |-> cfg.price_increment_lamports,
      timer_extension_secs     |-> cfg.timer_extension_secs,
      max_timer_secs           |-> cfg.max_timer_secs,
      winner_bps               |-> cfg.winner_bps,
      dividend_bps             |-> cfg.dividend_bps,
      next_round_bps           |-> cfg.next_round_bps,
      protocol_fee_bps         |-> cfg.protocol_fee_bps,
      referral_bonus_bps       |-> cfg.referral_bonus_bps,
      protocol_wallet          |-> cfg.protocol_wallet ]

\* The GameState initialize_first_round and start_new_round create
NewGame(round, carry_over) ==
    RoundCounters(round, carry_over) @@ Snapshot(config)

\* No evaluation of the arithmetic is under way
NoCalc ==
    [ op |-> "none", done |-> FALSE, supply |-> 0, a |-> 0, b |-> 0,
      cost |-> 0, credits |-> FALSE, params |-> TestParams,
      out |-> <<>> ]

\* The program as deployed: no account exists
Deployed ==
    /\ now = 0
    /\ config = DefaultConfig
    /\ games = <<>>
    /\ vault = [r \in Rounds |-> 0]
    /\ players = [p \in Players |-> DefaultPlayer]
    /\ protocolBalance = [w \in Wallets |-> 0]
    /\ grossPaid = 0
    /\ paidOut = 0
    /\ keysBought = [r \in Rounds |-> [p \in Players |-> 0]]
    /\ divBooked = [r \in Rounds |-> 0]
    /\ divPaid = [r \in Rounds |-> [p \in Players |-> <<>>]]
    /\ winnerPaid = [r \in Rounds |-> <<>>]
    /\ lastNonZeroBuyer = [r \in Rounds |-> NoKey]
    /\ refAccrued = [r \in Rounds |-> [p \in Players |-> 0]]

Init == Deployed /\ calc = NoCalc

\* The rounds whose GameState account exists
Created == 1..Len(games)

\* (an auto-end check that flips the flag of an expired round either way)
AutoEnd_toggles(game) ==
    IF now >= game.timer_end THEN [game EXCEPT !.active = ~@] ELSE game

\* (an auto-end check that ignores the clock)
AutoEnd_ignoresClock(game) == [game EXCEPT !.active = FALSE]

\* (an auto-end check that fires one tick before the deadline)
AutoEnd_early(game) ==
    IF now + 1 >= game.timer_end /\ game.active
    THEN [game EXCEPT !.active = FALSE]
    ELSE game

\* The "Auto-end check" every handler starts with: the round as the handler
\* sees it after comparing the clock with the deadline.
AutoEnd(game) ==
    IF now >= game.timer_end /\ game.active
    THEN [game EXCEPT !.active = FALSE]
    ELSE game

\* ------------------------------------------------- create_or_update_config
\* (a configuration write without the admin check)
create_or_update_config_err_anySigner(signer, params) ==
    IF ~validate_bps_sum(params.winner_bps, params.dividend_bps,
                         params.next_round_bps) THEN "InvalidConfig"
    ELSE IF ~(params.base_price_lamports > 0) THEN "InvalidConfig"
    ELSE IF ~(params.price_increment_lamports > 0) THEN "InvalidConfig"
    ELSE IF ~(params.timer_extension_secs > 0) THEN "InvalidConfig"
    ELSE IF ~(params.max_timer_secs > 0) THEN "InvalidConfig"
    ELSE IF ~(params.protocol_fee_bps <= BPS_DENOMINATOR) THEN "InvalidConfig"
    ELSE IF ~(params.referral_bonus_bps <= BPS_DENOMINATOR) THEN "InvalidConfig"
    ELSE IF params.protocol_wallet = NoKey THEN "InvalidConfig"
    ELSE "Ok"

\* The checks of handle_create_or_update_config, in the handler's order
create_or_update_config_err(signer, params) ==
    IF config.admin # NoKey /\ signer # config.admin THEN "Unauthorized"
    ELSE IF ~validate_bps_sum(params.winner_bps, params.dividend_bps,
                              params.next_round_bps) THEN "InvalidConfig"
    ELSE IF ~(params.base_price_lamports > 0) THEN "InvalidConfig"
    ELSE IF ~(params.price_increment_lamports > 0) THEN "InvalidConfig"
    ELSE IF ~(params.timer_extension_secs > 0) THEN "InvalidConfig"
    ELSE IF ~(params.max_timer_secs > 0) THEN "InvalidConfig"
    ELSE IF ~(params.protocol_fee_bps <= BPS_DENOMINATOR) THEN "InvalidConfig"
    ELSE IF ~(params.referral_bonus_bps <= BPS_DENOMINATOR) THEN "InvalidConfig"
    ELSE IF params.protocol_wallet = NoKey THEN "InvalidConfig"
    ELSE "Ok"

\* The deployer (AdminKey) is the first to write the configuration; after
\* that any signer may try.
CreateOrUpdateConfig(signer, params) ==
    /\ config.admin = NoKey => signer = AdminKey
    /\ create_or_update_config_err(signer, params) = "Ok"
    /\ config' = [admin |-> signer] @@ params
    /\ UNCHANGED <<calc, now, games, vault, players, protocolBalance, ledger>>

\* -------------------------------------------------- initialize_first_round
\* (a first-round creation without the admin constraint)
initialize_first_round_err_anySigner(signer) ==
    IF config.admin = NoKey THEN "AccountNotInitialized"
    ELSE IF Len(games) >= 1 THEN "AccountAlreadyInUse"
    ELSE "Ok"

\* The account constraints of InitializeFirstRound, in declaration order
initialize_first_round_err(signer) ==
    IF config.admin = NoKey THEN "AccountNotInitialized"
    ELSE IF config.admin # signer THEN "Unauthorized"
    ELSE IF Len(games) >= 1 THEN "AccountAlreadyInUse"
    ELSE "Ok"

InitializeFirstRound(signer) ==
    /\ initialize_first_round_err(signer) = "Ok"
    /\ games' = <<NewGame(1, 0)>>
    /\ UNCHANGED <<calc, now, config, vault, players, protocolBalance, ledger>>

\* ------------------------------------------------------------------ clock
\* Only differences between the clock and the rounds' deadlines are ever
\* compared, so the clock starts to run when the first round exists.
Tick ==
    /\ now < MaxTime
    /\ Len(games) >= 1
    /\ now' = now + 1
    /\ UNCHANGED <<calc, config, games, vault, players, protocolBalance, ledger>>

\* --------------------------------------------------------------- buy_keys
\* (an auto-end return that also counts the caller as a participant)
ExpiredGame_countsCaller(game) ==
    [game EXCEPT !.active = FALSE, !.total_players = @ + 1]

\* (an auto-end return that also forgets who bought last)
ExpiredGame_clearsBuyer(game) ==
    [game EXCEPT !.active = FALSE, !.last_buyer = NoKey]

\* The auto-end return: the round is marked ended, nothing else is touched.
ExpiredGame(game) == [game EXCEPT !.active = FALSE]

\* (an AfterFee that forgets to take the fee off)
AfterFee_keepsFee(cost, house_fee) == cost

\* Step 1 of the waterfall: what is left of the cost after the house fee
AfterFee(cost, house_fee) == cost - house_fee

\* (a registration block that binds the supplied referrer on re-entry too)
EnterRound_rebinds(player, buyer, round, ref_player) ==
    IF player.player = NoKey
    THEN [DefaultPlayer EXCEPT !.player = buyer,
                               !.current_round = round,
                               !.referrer = ref_player]
    ELSE IF player.current_round = 0
    THEN [player EXCEPT !.keys = 0, !.current_round = round,
                        !.referrer = ref_player]
    ELSE player

\* The registration block: the buyer's record as it enters the round.
\* ref_player is referrer_state.player (NoKey when no referrer is supplied).
EnterRound(player, buyer, round, ref_player) ==
    IF player.player = NoKey
    THEN [DefaultPlayer EXCEPT !.player = buyer,
                               !.current_round = round,
                               !.referrer = ref_player]
    ELSE IF player.current_round = 0
    THEN [player EXCEPT !.keys = 0, !.current_round = round]
    ELSE player

\* (a registration block that lets a member of another round in)
EntryError_noMembershipCheck(player, buyer, round, ref, ref_player) ==
    IF player.player = NoKey
    THEN IF ref # NoKey /\ ref_player = buyer THEN "CannotReferSelf"
         ELSE IF ref # NoKey /\ ref_player # ref THEN "ReferrerNotRegistered"
         ELSE "Ok"
    ELSE "Ok"

\* The checks of the registration block
EntryError(player, buyer, round, ref, ref_player) ==
    IF player.player = NoKey
    THEN IF ref # NoKey /\ ref_player = buyer THEN "CannotReferSelf"
         \* referrer_state.key() must be the PDA of referrer_state.player
         ELSE IF ref # NoKey /\ ref_player # ref THEN "ReferrerNotRegistered"
         ELSE "Ok"
    ELSE IF player.current_round = 0 THEN "Ok"
    ELSE IF player.current_round = round THEN "Ok"
    ELSE "MustClaimPreviousRound"

\* (step 2 without the comparison against the bound referrer)
ReferralError_noMatchCheck(referrer, ref, ref_player) ==
    IF referrer # NoKey /\ ref = NoKey THEN "ReferrerMismatch"
    ELSE IF referrer # NoKey /\ ref_player # ref THEN "ReferrerNotRegistered"
    ELSE "Ok"

\* The checks of step 2: a bound referrer must be supplied and must match
ReferralError(referrer, ref, ref_player) ==
    IF referrer # NoKey /\ ref = NoKey THEN "ReferrerMismatch"
    ELSE IF referrer # NoKey /\ ref_player # referrer THEN "ReferrerMismatch"
    ELSE IF referrer # NoKey /\ ref_player # ref THEN "ReferrerNotRegistered"
    ELSE "Ok"

\* (a waterfall that credits the referrer without taking the bonus out of
\* what enters the pot split)
Waterfall_bonusOnTop(game, cost, credits) ==
    LET house_fee      == calculate_bps_split(cost, game.protocol_fee_bps)
        after_fee      == AfterFee(cost, house_fee)
        referral_bonus == IF credits
                          THEN calculate_bps_split(after_fee,
                                                   game.referral_bonus_bps)
                          ELSE 0
    IN  [ house_fee         |-> house_fee,
          after_fee         |-> after_fee,
          referral_bonus    |-> referral_bonus,
          pot_contribution  |-> after_fee,
          winner_amount     |-> calculate_bps_split(after_fee,
                                                    game.winner_bps),
          dividend_amount   |-> calculate_bps_split(after_fee,
                                                    game.dividend_bps),
          next_round_amount |-> calculate_bps_split(after_fee,
                                                    game.next_round_bps) ]

\* Steps 1-3 of the waterfall on one purchase's cost
Waterfall(game, cost, credits) ==
    LET house_fee      == calculate_bps_split(cost, game.protocol_fee_bps)
        after_fee      == AfterFee(cost, house_fee)
        referral_bonus == IF credits
                          THEN calculate_bps_split(after_fee,
                                                   game.referral_bonus_bps)
                          ELSE 0
        pot_contribution == after_fee - referral_bonus
    IN  [ house_fee         |-> house_fee,
          after_fee         |-> after_fee,
          referral_bonus    |-> referral_bonus,
          pot_contribution  |-> pot_contribution,
          winner_amount     |-> calculate_bps_split(pot_contribution,
                                                    game.winner_bps),
          dividend_amount   |-> calculate_bps_split(pot_contribution,
                                                    game.dividend_bps),
          next_round_amount |-> calculate_bps_split(pot_contribution,
                                                    game.next_round_bps) ]

\* "Update game state", "Add keys" and "Extend timer" of the purchase proper
BoughtGame(game, buyer, keys_to_buy, cost, w) ==
    [game EXCEPT
       !.winner_pot          = @ + w.winner_amount,
       !.total_dividend_pool = @ + w.dividend_amount,
       !.next_round_pot      = @ + w.next_round_amount,
       !.total_keys          = @ + keys_to_buy,
       !.pot_lamports        = @ + cost,
       !.last_buyer          = buyer,
       !.timer_end = calculate_timer_extension(
                         now, game.timer_extension_secs, game.timer_end,
                         game.round_start, game.max_timer_secs)]

\* The amounts on the paths that move nothing
NoAmounts ==
    [ house_fee |-> 0, after_fee |-> 0, referral_bonus |-> 0,
      pot_contribution |-> 0, winner_amount |-> 0, dividend_amount |-> 0,
      next_round_amount |-> 0 ]

\* (a handler without the registration-only return of a 0-key purchase)
BuyActive_noEarlyReturn(buyer, game, player, keys_to_buy, ref, ref_player, entered, cost) ==
    LET entry_err == EntryError(player, buyer, game.round, ref, ref_player)
        joins     == player.player = NoKey \/ player.current_round = 0
        counted   == IF joins
                     THEN [game EXCEPT !.total_players = @ + 1]
                     ELSE game
        ref_err   == ReferralError(entered.referrer, ref, ref_player)
        credits   == entered.referrer # NoKey /\ ref # NoKey
    IN  IF ~game.active
        THEN [err |-> "GameNotActive", path |-> "none", cost |-> 0,
              w |-> NoAmounts, player |-> player, game |-> game]
        ELSE IF entry_err # "Ok"
        THEN [err |-> entry_err, path |-> "none", cost |-> 0,
              w |-> NoAmounts, player |-> player, game |-> game]
        ELSE IF ~cost.ok
        THEN [err |-> "Overflow", path |-> "none", cost |-> 0,
              w |-> NoAmounts, player |-> player, game |-> game]
        ELSE IF ref_err # "Ok"
        THEN [err |-> ref_err, path |-> "none", cost |-> 0,
              w |-> NoAmounts, player |-> player, game |-> game]
        ELSE [err |-> "Ok", path |-> "buy", cost |-> cost.v,
              w |-> Waterfall(game, cost.v, credits),
              player |-> [entered EXCEPT !.keys = @ + keys_to_buy],
              game |-> BoughtGame(counted, buyer, keys_to_buy, cost.v,
                                  Waterfall(game, cost.v, credits))]

\* The handler behind its auto-end check, on a round that has not expired
BuyActive(buyer, game, player, keys_to_buy, ref, ref_player, entered, cost) ==
    LET entry_err == EntryError(player, buyer, game.round, ref, ref_player)
        joins     == player.player = NoKey \/ player.current_round = 0
        counted   == IF joins
                     THEN [game EXCEPT !.total_players = @ + 1]
                     ELSE game
        ref_err   == ReferralError(entered.referrer, ref, ref_player)
        credits   == entered.referrer # NoKey /\ ref # NoKey
    IN  IF ~game.active
        THEN [err |-> "GameNotActive", path |-> "none", cost |-> 0,
              w |-> NoAmounts, player |-> player, game |-> game]
        ELSE IF entry_err # "Ok"
        THEN [err |-> entry_err, path |-> "none", cost |-> 0,
              w |-> NoAmounts, player |-> player, game |-> game]
        ELSE IF keys_to_buy = 0
        THEN [err |-> "Ok", path |-> "entry", cost |-> 0,
              w |-> NoAmounts, player |-> entered, game |-> counted]
        ELSE IF ~cost.ok
        THEN [err |-> "Overflow", path |-> "none", cost |-> 0,
              w |-> NoAmounts, player |-> player, game |-> game]
        ELSE IF ref_err # "Ok"
        THEN [err |-> ref_err, path |-> "none", cost |-> 0,
              w |-> NoAmounts, player |-> player, game |-> game]
        ELSE [err |-> "Ok", path |-> "buy", cost |-> cost.v,
              w |-> Waterfall(game, cost.v, credits),
              player |-> [entered EXCEPT !.keys = @ + keys_to_buy],
              game |-> BoughtGame(counted, buyer, keys_to_buy, cost.v,
                                  Waterfall(game, cost.v, credits))]

\* handle_buy_keys on the accounts (buyer, round r, optional referrer_state
\* ref; NoKey when none is supplied): the result, the path taken and every
\* value the handler computes on the way.
\*   path "expired": the auto-end no-op return
\*   path "entry"  : the 0-key registration-only return
\*   path "buy"    : the purchase proper
\*   path "none"   : an error; the transaction changes nothing
handle_buy_keys(buyer, r, keys_to_buy, ref) ==
    LET game == games[r]
    IN  IF now >= game.timer_end
        THEN [err |-> "Ok", path |-> "expired", cost |-> 0, w |-> NoAmounts,
              player |-> players[buyer],
              game |-> IF game.active THEN ExpiredGame(game) ELSE game]
        ELSE BuyActive(buyer, game, players[buyer], keys_to_buy, ref,
                       IF ref = NoKey THEN NoKey ELSE players[ref].player,
                       EnterRound(players[buyer], buyer, game.round,
                                  IF ref = NoKey THEN NoKey
                                  ELSE players[ref].player),
                       calculate_cost(game.total_keys, keys_to_buy,
                                      game.base_price_lamports,
                                      game.price_increment_lamports))

\* Keys sold in rounds 1..n
RECURSIVE KeysSold(_)
KeysSold(n) == IF n = 0 THEN 0 ELSE games[n].total_keys + KeysSold(n - 1)

\* What a call of buy_keys leaves behind: the handler's result and the value
\* of everything the transaction writes (the accounts, the two transfers
\* buyer -> protocol wallet and buyer -> vault, and the history of the run).
BuyKeysEffect(buyer, r, keys_to_buy, ref, h) ==
    \* bought: the call reached the purchase proper and bought keys
    LET bought == h.path = "buy"
        credit == h.w.referral_bonus
    IN  [ err     |-> h.err,
          games   |-> [games EXCEPT ![r] = h.game],
          players |-> IF credit > 0
                      THEN [players EXCEPT
                              ![buyer] = h.player,
                              ![ref].referral_earnings_lamports = @ + credit]
                      ELSE [players EXCEPT ![buyer] = h.player],
          protocolBalance |-> [protocolBalance EXCEPT
                                 ![games[r].protocol_wallet] = @ + h.w.house_fee],
          vault      |-> [vault EXCEPT ![r] = @ + h.w.after_fee],
          grossPaid  |-> grossPaid + h.cost,
          keysBought |-> IF bought
                         THEN [keysBought EXCEPT ![r][buyer] = @ + keys_to_buy]
                         ELSE keysBought,
          divBooked  |-> [divBooked EXCEPT ![r] = @ + h.w.dividend_amount],
          lastNonZeroBuyer |-> IF bought
                               THEN [lastNonZeroBuyer EXCEPT ![r] = buyer]
                               ELSE lastNonZeroBuyer,
          refAccrued |-> IF credit > 0
                         THEN [refAccrued EXCEPT ![r][ref] = @ + credit]
                         ELSE refAccrued ]

BuyKeys(buyer, r, keys_to_buy, ref) ==
    /\ r \in Created
    /\ KeysSold(Len(games)) + keys_to_buy <= MaxKeys
    /\ \E e \in {BuyKeysEffect(buyer, r, keys_to_buy, ref,
                               handle_buy_keys(buyer, r, keys_to_buy, ref))} :
           /\ e.err = "Ok"
           /\ games' = e.games
           /\ players' = e.players
           /\ protocolBalance' = e.protocolBalance
           /\ vault' = e.vault
           /\ grossPaid' = e.grossPaid
           /\ keysBought' = e.keysBought
           /\ divBooked' = e.divBooked
           /\ lastNonZeroBuyer' = e.lastNonZeroBuyer
           /\ refAccrued' = e.refAccrued
           /\ UNCHANGED <<calc, now, config, paidOut, divPaid, winnerPaid>>

\* ------------------------------------------------------------------ claim
\* (an IsWinner that does not look at last_buyer)
IsWinner_anyone(p, game) == ~game.winner_claimed

\* "Check if player is the winner"
IsWinner(p, game) == p = game.last_buyer /\ ~game.winner_claimed

\* (a ClaimedGame that leaves the winner flag alone)
ClaimedGame_noFlag(game, is_winner, dividend_share) == game

\* (a ClaimedGame that takes the share paid out of the dividend pool)
ClaimedGame_shrinksPool(game, is_winner, dividend_share) ==
    IF is_winner
    THEN [game EXCEPT !.winner_claimed = TRUE,
                      !.total_dividend_pool = @ - dividend_share]
    ELSE [game EXCEPT !.total_dividend_pool = @ - dividend_share]

\* "Update game state": only the winner flag; nothing is subtracted from
\* total_dividend_pool or total_keys for the dividend_share paid
ClaimedGame(game, is_winner, dividend_share) ==
    IF is_winner THEN [game EXCEPT !.winner_claimed = TRUE] ELSE game

\* (a SettledPlayer that keeps the participant in the round)
SettledPlayer_staysMember(player, dividend_share) ==
    [player EXCEPT !.claimed_dividends_lamports = @ + dividend_share,
                   !.keys = 0]

\* "Update player state: reset to prevent double-claim"
SettledPlayer(player, dividend_share) ==
    [player EXCEPT !.claimed_dividends_lamports = @ + dividend_share,
                   !.keys = 0,
                   !.current_round = 0]

\* (a handler that does not ask for a positive payout)
ClaimOn_paysZero(p, r, game, player, dividend_share, is_winner) ==
    LET winner_payout == IF is_winner THEN game.winner_pot ELSE 0
        total_payout  == dividend_share + winner_payout
    IN  [ err |-> IF game.active THEN "GameStillActive"
                  ELSE IF ~(vault[r] >= total_payout) THEN "InsufficientFunds"
                  ELSE "Ok",
          dividend_share |-> dividend_share,
          is_winner      |-> is_winner,
          winner_payout  |-> winner_payout,
          total_payout   |-> total_payout,
          game           |-> ClaimedGame(game, is_winner, dividend_share),
          player         |-> SettledPlayer(player, dividend_share) ]

\* The handler proper, on the round as the auto-end check leaves it
ClaimOn(p, r, game, player, dividend_share, is_winner) ==
    LET winner_payout == IF is_winner THEN game.winner_pot ELSE 0
        total_payout  == dividend_share + winner_payout
    IN  [ err |-> IF game.active THEN "GameStillActive"
                  ELSE IF ~(total_payout > 0) THEN "NothingToClaim"
                  ELSE IF ~(vault[r] >= total_payout) THEN "InsufficientFunds"
                  ELSE "Ok",
          dividend_share |-> dividend_share,
          is_winner      |-> is_winner,
          winner_payout  |-> winner_payout,
          total_payout   |-> total_payout,
          game           |-> ClaimedGame(game, is_winner, dividend_share),
          player         |-> SettledPlayer(player, dividend_share) ]

\* The outcome when the account constraints of Claim reject the call before
\* the handler runs
ClaimRejected(e, p, r) ==
    [ err |-> e, dividend_share |-> 0, is_winner |-> FALSE,
      winner_payout |-> 0, total_payout |-> 0,
      game |-> games[r], player |-> players[p] ]

\* handle_claim behind the account constraints of Claim: the PlayerState
\* must be the signer's (has_one) and a member of the round.
handle_claim(p, r) ==
    IF players[p].player # p
    THEN ClaimRejected("AccountNotInitialized", p, r)
    ELSE IF players[p].current_round # games[r].round
    THEN ClaimRejected("PlayerNotInRound", p, r)
    ELSE ClaimOn(p, r, AutoEnd(games[r]), players[p],
                 calculate_dividend_share(players[p].keys,
                                          games[r].total_dividend_pool,
                                          games[r].total_keys),
                 IsWinner(p, games[r]))

Claim(p, r) ==
    /\ r \in Created
    /\ \E h \in {handle_claim(p, r)} :
           /\ h.err = "Ok"
           /\ vault' = [vault EXCEPT ![r] = @ - h.total_payout]
           /\ games' = [games EXCEPT ![r] = h.game]
           /\ players' = [players EXCEPT ![p] = h.player]
           /\ paidOut' = paidOut + h.total_payout
           /\ divPaid' = [divPaid EXCEPT ![r][p] = Append(@, h.dividend_share)]
           /\ winnerPaid' =
                IF h.winner_payout > 0
                THEN [winnerPaid EXCEPT ![r] = Append(@, p)]
                ELSE winnerPaid
           /\ UNCHANGED <<calc, now, config, protocolBalance, grossPaid,
                          keysBought, divBooked, lastNonZeroBuyer,
                          refAccrued>>

\* ------------------------------------------------ claim_referral_earnings
\* (a referral claim that also settles the caller's round membership)
handle_claim_referral_earnings_settles(p, r) ==
    LET game   == AutoEnd(games[r])
        player == players[p]
        amount == player.referral_earnings_lamports
        err == IF player.player # p THEN "AccountNotInitialized"
               ELSE IF ~(amount > 0) THEN "NoReferralEarnings"
               ELSE IF ~(vault[r] >= amount) THEN "InsufficientFunds"
               ELSE "Ok"
    IN  [ err    |-> err,
          amount |-> amount,
          game   |-> game,
          player |-> [player EXCEPT
                        !.claimed_referral_earnings_lamports = @ + amount,
                        !.referral_earnings_lamports = 0,
                        !.keys = 0,
                        !.current_round = 0] ]

\* The accounts tie the PlayerState to the signer and the vault to the
\* GameState passed in; nothing ties the GameState to the earnings.
handle_claim_referral_earnings(p, r) ==
    LET game   == AutoEnd(games[r])
        player == players[p]
        amount == player.referral_earnings_lamports
        err == IF player.player # p THEN "AccountNotInitialized"
               ELSE IF ~(amount > 0) THEN "NoReferralEarnings"
               ELSE IF ~(vault[r] >= amount) THEN "InsufficientFunds"
               ELSE "Ok"
    IN  [ err    |-> err,
          amount |-> amount,
          game   |-> game,
          player |-> [player EXCEPT
                        !.claimed_referral_earnings_lamports = @ + amount,
                        !.referral_earnings_lamports = 0] ]

ClaimReferralEarnings(p, r) ==
    /\ r \in Created
    /\ \E h \in {handle_claim_referral_earnings(p, r)} :
           /\ h.err = "Ok"
           /\ vault' = [vault EXCEPT ![r] = @ - h.amount]
           /\ games' = [games EXCEPT ![r] = h.game]
           /\ players' = [players EXCEPT ![p] = h.player]
           /\ paidOut' = paidOut + h.amount
           /\ refAccrued' = [q \in Rounds |->
                               [refAccrued[q] EXCEPT ![p] = 0]]
           /\ UNCHANGED <<calc, now, config, protocolBalance, grossPaid,
                          keysBought, divBooked, divPaid, winnerPaid,
                          lastNonZeroBuyer>>

\* -------------------------------------------------------- start_new_round
\* (a carry-over that always empties the predecessor's vault)
CarryOver_wholeVault(prev_game, prev_vault) == prev_vault

\* (a carry-over that always forwards the next-round pool only)
CarryOver_potOnly(prev_game, prev_vault) == prev_game.next_round_pot

\* The amount forwarded to the successor: the whole vault of a round that
\* sold no key, the next-round pool of any other round.
CarryOver(prev_game, prev_vault) ==
    IF prev_game.total_keys = 0 THEN prev_vault
    ELSE prev_game.next_round_pot

\* (a transition whose successor account need not be new)
handle_start_new_round_reinit(prev) ==
    LET ended     == AutoEnd(games[prev])
        prev_game == IF ended.total_keys = 0
                     THEN [ended EXCEPT !.winner_claimed = TRUE]
                     ELSE ended
        carry_over == CarryOver(prev_game, vault[prev])
        err == IF config.admin = NoKey THEN "AccountNotInitialized"
               ELSE IF ended.active THEN "GameStillActive"
               ELSE IF carry_over > 0 /\ ~(vault[prev] >= carry_over)
                    THEN "InsufficientFunds"
               ELSE "Ok"
    IN  [ err        |-> err,
          carry_over |-> carry_over,
          prev_game  |-> prev_game,
          new_game   |-> NewGame(prev_game.round + 1, carry_over) ]

\* (a transition that checks the deadline but does not end the predecessor)
handle_start_new_round_keepsFlag(prev) ==
    LET ended     == games[prev]
        prev_game == IF ended.total_keys = 0
                     THEN [ended EXCEPT !.winner_claimed = TRUE]
                     ELSE ended
        carry_over == CarryOver(prev_game, vault[prev])
        err == IF config.admin = NoKey THEN "AccountNotInitialized"
               ELSE IF prev + 1 <= Len(games) THEN "AccountAlreadyInUse"
               ELSE IF now < ended.timer_end THEN "GameStillActive"
               ELSE IF carry_over > 0 /\ ~(vault[prev] >= carry_over)
                    THEN "InsufficientFunds"
               ELSE "Ok"
    IN  [ err        |-> err,
          carry_over |-> carry_over,
          prev_game  |-> prev_game,
          new_game   |-> NewGame(prev_game.round + 1, carry_over) ]

\* new_game_state is `init`: the successor's account must not exist yet.
handle_start_new_round(prev) ==
    LET ended     == AutoEnd(games[prev])
        prev_game == IF ended.total_keys = 0
                     THEN [ended EXCEPT !.winner_claimed = TRUE]
                     ELSE ended
        carry_over == CarryOver(prev_game, vault[prev])
        err == IF config.admin = NoKey THEN "AccountNotInitialized"
               ELSE IF prev + 1 <= Len(games) THEN "AccountAlreadyInUse"
               ELSE IF ended.active THEN "GameStillActive"
               ELSE IF carry_over > 0 /\ ~(vault[prev] >= carry_over)
                    THEN "InsufficientFunds"
               ELSE "Ok"
    IN  [ err        |-> err,
          carry_over |-> carry_over,
          prev_game  |-> prev_game,
          new_game   |-> NewGame(prev_game.round + 1, carry_over) ]

\* The result for a given signer: the accounts ask `payer` for a signature
\* and for nothing else, so the result does not depend on who signs.
start_new_round_err(payer, prev) == handle_start_new_round(prev).err

StartNewRound(payer, prev) ==
    /\ prev \in Created
    /\ prev + 1 <= MaxRounds
    /\ \E h \in {handle_start_new_round(prev)} :
           /\ h.err = "Ok"
           /\ games' = Append([games EXCEPT ![prev] = h.prev_game],
                              h.new_game)
           /\ vault' = [vault EXCEPT ![prev] = @ - h.carry_over,
                                     ![prev + 1] = @ + h.carry_over]
           /\ UNCHANGED <<calc, now, config, players, protocolBalance, ledger>>

\* ---------------------------------------------------------- specification
Signers == Players \cup {AdminKey}

Next ==
    \/ Tick
    \/ \E s \in {AdminKey, 1}, params \in ParamChoices :
           CreateOrUpdateConfig(s, params)
    \/ \E s \in {AdminKey, 1} : InitializeFirstRound(s)
    \/ \E s \in {AdminKey, 1}, prev \in Rounds : StartNewRound(s, prev)
    \/ \E buyer \in Players, r \in Rounds, k \in 0..MaxBuy,
          ref \in Players \cup {NoKey} : BuyKeys(buyer, r, k, ref)
    \/ \E p \in Players, r \in Rounds : Claim(p, r)
    \/ \E p \in Players, r \in Rounds : ClaimReferralEarnings(p, r)

Spec == Init /\ [][Next]_vars

\* The same program with an admin who also writes the second parameter set
NextCfg ==
    \/ Next
    \/ CreateOrUpdateConfig(AdminKey, AltParams)

SpecCfg == Init /\ [][NextCfg]_vars

\* ------------------------------------------- the arithmetic, on its own
\* The two parameter sets the arithmetic is evaluated with
CalcParams == {TestParams, AltParams}

\* calculate_cost for a batch of a + b keys at a supply, and for the same
\* keys bought as a first and then b
CostInputs ==
    {[NoCalc EXCEPT !.op = "cost", !.supply = k, !.a = a, !.b = b,
                    !.params = ps] :
        k \in 0..MaxSupply, a \in 0..MaxQty, b \in 0..MaxQty,
        ps \in CalcParams}

\* The fee ordering of buy_keys for a cost, with and without a referrer to
\* credit
SplitInputs ==
    {[NoCalc EXCEPT !.op = "split", !.cost = c, !.credits = cr,
                    !.params = ps] :
        c \in 0..MaxCost, cr \in BOOLEAN, ps \in CalcParams}

InitCalc == Deployed /\ calc \in CostInputs \cup SplitInputs

PriceKeys ==
    /\ calc.op = "cost" /\ ~calc.done
    /\ calc' = [calc EXCEPT
                  !.done = TRUE,
                  !.out = [ batch |-> calculate_cost(
                                         calc.supply, calc.a + calc.b,
                                         calc.params.base_price_lamports,
                                         calc.params.price_increment_lamports),
                            first |-> calculate_cost(
                                         calc.supply, calc.a,
                                         calc.params.base_price_lamports,
                                         calc.params.price_increment_lamports),
                            rest  |-> calculate_cost(
                                         calc.supply + calc.a, calc.b,
                                         calc.params.base_price_lamports,
                                         calc.params.price_increment_lamports) ]]
    /\ UNCHANGED state

SplitCost ==
    /\ calc.op = "split" /\ ~calc.done
    /\ calc' = [calc EXCEPT
                  !.done = TRUE,
                  !.out = Waterfall(Snapshot(calc.params), calc.cost,
                                    calc.credits)]
    /\ UNCHANGED state

NextCalc ==
    \/ PriceKeys
    \/ SplitCost

SpecCalc == InitCalc /\ [][NextCalc]_vars

\* ------------------------------------------------------- derived quantities
RECURSIVE SumOver(_, _)
SumOver(f, S) ==
    IF S = {} THEN 0
    ELSE LET x == CHOOSE y \in S : TRUE
         IN  f[x] + SumOver(f, S \ {x})

RECURSIVE SumSeq(_)
SumSeq(s) == IF s = <<>> THEN 0 ELSE Head(s) + SumSeq(Tail(s))

\* Dividends already paid out of round r
DividendsPaid(r) == SumOver([p \in Players |-> SumSeq(divPaid[r][p])], Players)

\* What round r's vault still owes: the winner pool until it is claimed, the
\* dividend pool less the dividends paid, the carry-over until it has been
\* forwarded, and the referral bonuses credited by round r's purchases and
\* not yet claimed.
Outstanding(r) ==
      (IF games[r].winner_claimed \/ games[r].total_keys = 0
       THEN 0 ELSE games[r].winner_pot)
    + (games[r].total_dividend_pool - DividendsPaid(r))
    + (IF r + 1 \in Created THEN 0 ELSE games[r].next_round_pot)
    + SumOver(refAccrued[r], Players)

\* ================================================================== claims

\* C1: in every reachable state each round's vault holds at least
\* winner_pot + total_dividend_pool + next_round_pot + the unclaimed referral
\* earnings accrued from that round's purchases.  The pools are read here as
\* what is still owed (Outstanding), which is never more than the sum of the
\* three counters, so a state that breaks this breaks the bound as worded.
C1_VaultCoversPools ==
    \A r \in Created : vault[r] >= Outstanding(r)

\* C2: protocol fees paid + amounts paid to claimants + vault balances
\* = total gross cost paid by buyers, in every reachable state.
C2_Conservation ==
    SumOver(protocolBalance, Wallets) + paidOut + SumOver(vault, Rounds)
        = grossPaid

\* C2 case: two rounds exist, buyers have paid in both, a dividend or winner
\* claim and a referral claim have been paid.
C2_Witness ==
    /\ Len(games) = 2
    /\ games[1].total_keys > 0
    /\ games[2].total_keys > 0
    /\ protocolBalance[ProtocolWallet] > 0
    /\ \E p \in Players : players[p].claimed_referral_earnings_lamports > 0
    /\ \E p \in Players : divPaid[1][p] # <<>>

\* C3: the recorded last buyer of a round is the buyer of the last purchase
\* that bought a non-zero quantity before the deadline (0-key and late
\* purchases never change it), every winner payout of the round went to that
\* participant, and a claim by anyone else has a winner payout of 0.
C3_WinnerIsLastBuyer ==
    \A r \in Created :
        /\ games[r].last_buyer = lastNonZeroBuyer[r]
        /\ \A i \in 1..Len(winnerPaid[r]) :
               winnerPaid[r][i] = lastNonZeroBuyer[r]
        /\ \A p \in Players :
               p # lastNonZeroBuyer[r] => handle_claim(p, r).winner_payout = 0

\* C3 case: the winner pool of a round was paid while another participant,
\* who holds keys of that round, is still a member of it.
C3_Witness ==
    \E r \in Created, q \in Players :
        /\ winnerPaid[r] # <<>>
        /\ q # lastNonZeroBuyer[r]
        /\ players[q].current_round = r
        /\ players[q].keys > 0

\* C4 (state part): a round's winner pool is paid at most once, the flag is
\* set once it has been paid, and once the flag is set every claim on the
\* round has a winner payout of 0.
C4_PaidAtMostOnce ==
    \A r \in Created :
        /\ Len(winnerPaid[r]) <= 1
        /\ Len(winnerPaid[r]) = 1 => games[r].winner_claimed
        /\ games[r].winner_claimed =>
               \A p \in Players : handle_claim(p, r).winner_payout = 0

\* C4 (step part): the flag never returns to false, and in a round that sold
\* keys it rises in the step that pays the winner pool to the last buyer.
C4_FlagStep ==
    \A r \in Created :
        /\ games[r].winner_claimed => games'[r].winner_claimed
        /\ (~games[r].winner_claimed /\ games'[r].winner_claimed
            /\ games[r].total_keys > 0)
           => winnerPaid'[r] = Append(winnerPaid[r], games[r].last_buyer)

\* C4: the winner pool is paid out at most once: the flag goes from false to
\* true on the first successful claim by the last buyer, never returns to
\* false, and every later claim on the round has a winner payout of 0.
C4_WinnerPaidOnce == []C4_PaidAtMostOnce /\ [][C4_FlagStep]_vars

\* C4 case: the winner has been paid and another member of the round can
\* still claim (its claim succeeds with a winner payout of 0).
C4_Witness ==
    \E r \in Created, q \in Players :
        /\ Len(winnerPaid[r]) = 1
        /\ handle_claim(q, r).err = "Ok"
        /\ handle_claim(q, r).winner_payout = 0

\* C5: once a participant has claimed in a round, a further claim by that
\* participant on that round fails with PlayerNotInRound, and no participant
\* is paid for the same round twice.
C5_NoDoubleClaim ==
    \A r \in Created, p \in Players :
        /\ Len(divPaid[r][p]) <= 1
        /\ Len(divPaid[r][p]) = 1 =>
               /\ handle_claim(p, r).err = "PlayerNotInRound"
               /\ handle_claim(p, r).total_payout = 0

\* C5 case: a participant has claimed in round 1 and has since joined
\* round 2 (so is a participant again, but of another round).
C5_Witness ==
    \E p \in Players :
        /\ Len(divPaid[1][p]) = 1
        /\ players[p].current_round = 2

\* C6: the dividend a participant is paid for a round is a function of the
\* round's purchases alone -- floor(own keys * dividends booked / keys sold)
\* -- so it is the same whatever the order (and the interleaving with other
\* operations) in which the claims arrive.
C6_OrderIndependent ==
    \A r \in Created, p \in Players :
        divPaid[r][p] # <<>> =>
            divPaid[r][p][1] =
                calculate_dividend_share(keysBought[r][p], divBooked[r],
                                         SumOver(keysBought[r], Players))

\* C6 case: both participants hold keys of one round and both have claimed.
C6_Witness ==
    \E r \in Created :
        \A p \in Players : divPaid[r][p] # <<>> /\ divPaid[r][p][1] > 0

\* C7: a claim on an ended round by a member with a non-zero payout never
\* fails with InsufficientFunds.
C7_ClaimAlwaysFunded ==
    \A r \in Created, p \in Players :
        handle_claim(p, r).err # "InsufficientFunds"

\* C8: a referral claim is paid only out of the vault of the round whose
\* purchases generated the earnings: whenever a participant's referral
\* balance is paid, every round's vault goes down by exactly what that
\* round's purchases had credited to the participant.
C8_ReferralFromOwnRound ==
    [][\A p \in Players :
          players'[p].claimed_referral_earnings_lamports
              > players[p].claimed_referral_earnings_lamports
          => \A r \in Rounds : vault[r] - vault'[r] = refAccrued[r][p]]_vars

\* C9 as worded: a claim by any registered participant against a round
\* whose deadline has not passed always fails with GameStillActive.
C9_AlwaysGameStillActive ==
    \A r \in Created, p \in Players :
        (players[p].player = p /\ now < games[r].timer_end)
            => handle_claim(p, r).err = "GameStillActive"

\* C9: a claim against a round whose deadline has not passed always fails
\* and pays nothing: with GameStillActive when the caller is a member of the
\* round, with PlayerNotInRound (or the account check, for a caller with no
\* record) when not; nothing has been paid from a round before its deadline.
C9_NoClaimBeforeDeadline ==
    \A r \in Created, p \in Players :
        now < games[r].timer_end =>
            /\ games[r].active
            /\ handle_claim(p, r).err =
                   IF players[p].player # p THEN "AccountNotInitialized"
                   ELSE IF players[p].current_round # r THEN "PlayerNotInRound"
                   ELSE "GameStillActive"
            /\ divPaid[r][p] = <<>>
            /\ winnerPaid[r] = <<>>

\* C9 case: before the deadline, a member holding keys (whose claim would
\* pay once the round has ended) and a registered non-member.
C9_Witness ==
    \E r \in Created, p, q \in Players :
        /\ now < games[r].timer_end
        /\ players[p].current_round = r
        /\ players[p].keys > 0
        /\ players[q].player = q
        /\ players[q].current_round # r

\* The effect of a purchase of k keys on round r by buyer, naming ref
PurchaseEffect(buyer, r, k, ref) ==
    BuyKeysEffect(buyer, r, k, ref, handle_buy_keys(buyer, r, k, ref))

\* An effect that leaves everything as it is except round r's active flag,
\* which it leaves false
OnlyEnds(e, r) ==
    /\ e.games = [games EXCEPT ![r].active = FALSE]
    /\ e.players = players
    /\ e.vault = vault
    /\ e.protocolBalance = protocolBalance
    /\ e.grossPaid = grossPaid
    /\ e.keysBought = keysBought
    /\ e.divBooked = divBooked
    /\ e.lastNonZeroBuyer = lastNonZeroBuyer
    /\ e.refAccrued = refAccrued

\* C10: a purchase of any quantity at a time >= the round's deadline returns
\* success, moves no funds and changes no holdings, pools, total keys, last
\* buyer, participant count or membership: all it can change is the round's
\* active flag, to false.
C10_ExpiredPurchaseNoOp ==
    \A r \in Created :
        now >= games[r].timer_end =>
            \A buyer \in Players, k \in 0..MaxBuy, ref \in Players \cup {NoKey} :
                \A e \in {PurchaseEffect(buyer, r, k, ref)} :
                    e.err = "Ok" /\ OnlyEnds(e, r)

\* C10 case: the only round that exists was ended by a purchase (nothing
\* has been claimed and no successor started), after keys had been sold.
C10_Witness ==
    /\ Len(games) = 1
    /\ ~games[1].active
    /\ paidOut = 0
    /\ games[1].total_keys > 0

\* C11: once a round's deadline has passed, no step of the program (purchase,
\* claim, referral claim, transition, configuration write, clock) changes its
\* total keys sold, its last buyer, its winner pool, its dividend pool or its
\* carry-over pool.
C11_FrozenAfterDeadline ==
    [][\A r \in Created :
         now >= games[r].timer_end =>
           /\ games'[r].total_keys = games[r].total_keys
           /\ games'[r].last_buyer = games[r].last_buyer
           /\ games'[r].winner_pot = games[r].winner_pot
           /\ games'[r].total_dividend_pool = games[r].total_dividend_pool
           /\ games'[r].next_round_pot = games[r].next_round_pot]_vars

\* Round 1 sold keys and expired; since then its winner was paid, a successor
\* was started and keys were sold in the successor.
C11_Witness ==
    /\ Len(games) >= 2
    /\ games[1].total_keys > 0
    /\ now >= games[1].timer_end
    /\ winnerPaid[1] # <<>>
    /\ games[2].total_keys > 0

\* C12: across the purchases of a round its recorded deadline never decreases
\* and never exceeds round_start + max_timer_secs.
C12_WithinCap ==
    \A r \in Created :
        games[r].timer_end <= games[r].round_start + games[r].max_timer_secs

C12_NoDecrease ==
    \A r \in Created : games'[r].timer_end >= games[r].timer_end

C12_DeadlineMonotoneCapped == []C12_WithinCap /\ [][C12_NoDecrease]_vars

\* Keys were bought in a round whose extension is longer than the whole
\* round (the cap decided the deadline) and in a round whose extension is
\* shorter than what was left (the old deadline decided it).
C12_Witness ==
    /\ \E r \in Created :
          /\ games[r].total_keys > 0
          /\ games[r].timer_extension_secs > games[r].max_timer_secs
    /\ \E r \in Created :
          /\ games[r].total_keys > 0
          /\ games[r].timer_extension_secs < games[r].max_timer_secs

\* An effect that leaves every account, balance and total as it is
Untouched(e) ==
    /\ e.games = games
    /\ e.players = players
    /\ e.vault = vault
    /\ e.protocolBalance = protocolBalance
    /\ e.grossPaid = grossPaid
    /\ e.keysBought = keysBought
    /\ e.divBooked = divBooked
    /\ e.lastNonZeroBuyer = lastNonZeroBuyer
    /\ e.refAccrued = refAccrued

\* C13: a purchase of any quantity, before the deadline of round r, by a
\* registered participant succeeds only if the participant's membership is
\* r or 0; with membership 0 a successful purchase leaves the participant a
\* member of r holding exactly the keys just bought; with any other
\* membership the purchase fails with MustClaimPreviousRound and changes
\* nothing.
C13_MustClaimPreviousRound ==
    \A r \in Created, buyer \in Players :
        (now < games[r].timer_end /\ players[buyer].player = buyer) =>
            \A k \in 0..MaxBuy, ref \in Players \cup {NoKey} :
                \A e \in {PurchaseEffect(buyer, r, k, ref)} :
                    /\ players[buyer].current_round \notin {0, r} =>
                          e.err = "MustClaimPreviousRound" /\ Untouched(e)
                    /\ e.err = "Ok" =>
                          players[buyer].current_round \in {0, r}
                    /\ (e.err = "Ok" /\ players[buyer].current_round = 0) =>
                          /\ e.players[buyer].current_round = r
                          /\ e.players[buyer].keys = k

\* Round 2 is before its deadline; one registered participant is still a
\* member of round 1, the other settled round 1 and bought into round 2.
C13_Witness ==
    /\ Len(games) >= 2
    /\ now < games[2].timer_end
    /\ \E p \in Players :
          players[p].player = p /\ players[p].current_round = 1
    /\ \E q \in Players :
          /\ divPaid[1][q] # <<>>
          /\ players[q].current_round = 2
          /\ players[q].keys > 0

\* The step is a round transition out of round prev
Transitioned(prev) == prev = Len(games) /\ Len(games') = Len(games) + 1

\* Between the two states exactly `amount` moved from round prev's vault to
\* its successor's, and no other vault changed
Forwarded(prev, amount) ==
    /\ vault'[prev] = vault[prev] - amount
    /\ vault'[prev + 1] = vault[prev + 1] + amount
    /\ \A q \in Rounds \ {prev, prev + 1} : vault'[q] = vault[q]

\* C15: a transition out of a round that sold at least one key moves exactly
\* that round's next_round_pot from its vault to the successor's vault,
\* whatever has or has not been claimed from the round.
C15_ForwardsNextRoundPot ==
    [][\A prev \in Created :
         (Transitioned(prev) /\ games[prev].total_keys > 0) =>
             Forwarded(prev, games[prev].next_round_pot)]_vars

\* Round 1 sold keys, its winner and a dividend were paid, and its successor
\* exists; round 2 sold keys but nothing was claimed from it, and its
\* successor exists too.
C15_Witness ==
    /\ Len(games) = 3
    /\ games[1].total_keys > 0
    /\ games[1].next_round_pot > 0
    /\ winnerPaid[1] # <<>>
    /\ games[2].total_keys > 0
    /\ winnerPaid[2] = <<>>
    /\ \A p \in Players : divPaid[2][p] = <<>>
    /\ vault[3] = games[2].next_round_pot

\* C16: a transition out of a round that sold no key sets that round's
\* winner_claimed flag and moves the whole balance of its vault (not its
\* next_round_pot field, which is 0) to the successor's vault, so that the
\* vault of an empty round is left empty however many empty rounds follow
\* one another.
C16_EmptyRoundForwardsVault ==
    [][\A prev \in Created :
         (Transitioned(prev) /\ games[prev].total_keys = 0) =>
             /\ games'[prev].winner_claimed
             /\ Forwarded(prev, vault[prev])
             /\ vault'[prev] = 0]_vars

\* Round 1 sold keys and forwarded its next-round pool into round 2, which
\* sold none; round 2 has been transitioned and the carried value sits in
\* round 3's vault.
C16_Witness ==
    /\ Len(games) = 3
    /\ games[1].next_round_pot > 0
    /\ games[2].total_keys = 0
    /\ games[2].next_round_pot = 0
    /\ games[2].winner_claimed
    /\ vault[2] = 0
    /\ games[3].total_keys = 0
    /\ vault[3] = games[1].next_round_pot

\* C17: right after a transition out of round prev the successor has round
\* number prev + 1, is active, has pot_lamports and winner_pot equal to the
\* amount that the transition moved into its vault, has no keys sold, no
\* participants, an empty dividend pool and next-round pool, no last buyer,
\* winner_claimed false, and a deadline max_timer_secs after the transition.
C17_SuccessorInitialState ==
    [][\A prev \in Created :
         Transitioned(prev) =>
             \A g \in {games'[prev + 1]} :
                 /\ g.round = games[prev].round + 1
                 /\ g.active
                 /\ g.pot_lamports = vault'[prev + 1] - vault[prev + 1]
                 /\ g.winner_pot = vault'[prev + 1] - vault[prev + 1]
                 /\ g.pot_lamports = vault[prev] - vault'[prev]
                 /\ g.total_keys = 0
                 /\ g.total_players = 0
                 /\ g.total_dividend_pool = 0
                 /\ g.next_round_pot = 0
                 /\ g.last_buyer = NoKey
                 /\ ~g.winner_claimed
                 /\ g.round_start = now
                 /\ g.timer_end = now + config.max_timer_secs
                 /\ g.max_timer_secs = config.max_timer_secs]_vars

\* Round 2 has just been started with a carry-over: nothing has happened in
\* it and its vault holds exactly the seed of its winner pool.
C17_Witness ==
    /\ Len(games) >= 2
    /\ now = games[2].round_start
    /\ games[2].total_keys = 0
    /\ games[2].total_players = 0
    /\ games[2].winner_pot > 0
    /\ vault[2] = games[2].winner_pot

\* C18: starting the successor of the latest round fails with
\* GameStillActive while that round's deadline has not passed, and succeeds
\* once the deadline has passed, whatever has been claimed from the round.
C18_TransitionGatedByDeadlineOnly ==
    \A prev \in Created :
        prev = Len(games) =>
            \A h \in {handle_start_new_round(prev)} :
                IF now < games[prev].timer_end
                THEN h.err = "GameStillActive"
                ELSE h.err = "Ok"

\* C19: a round's active flag goes from true to false at most once and
\* never back: a round that is not active stays so, and the flag is cleared
\* only by an operation (a purchase, a claim of either kind or a transition;
\* never the clock or a configuration write) that runs against the round at
\* or after its deadline, which for a round without keys includes the
\* transition out of it.
C19_TerminalOnce ==
    [][\A r \in Created :
         /\ ~games[r].active => ~games'[r].active
         /\ (games[r].active /\ ~games'[r].active) =>
               /\ now >= games[r].timer_end
               /\ now' = now
               /\ config' = config]_vars

\* Round 1 sold keys, ended and was transitioned; round 2 sold nothing and
\* was ended, without a transition, by an operation that saw its deadline.
C19_Witness ==
    /\ Len(games) = 2
    /\ ~games[1].active
    /\ games[1].total_keys > 0
    /\ ~games[2].active
    /\ games[2].total_keys = 0
    /\ ~games[2].winner_claimed

\* The referral bonus credited between the two states
Credited == SumOver([p \in Players |->
                       players'[p].referral_earnings_lamports
                         + players'[p].claimed_referral_earnings_lamports
                         - players[p].referral_earnings_lamports
                         - players[p].claimed_referral_earnings_lamports],
                    Players)

\* The parameters a round holds: the fields of ConfigParams
ParamFields == DOMAIN TestParams

SameParams(a, b) == \A f \in ParamFields : a[f] = b[f]

\* Round r's parameters are the same in both states
KeepsSnapshot(r) == SameParams(games'[r], games[r])

\* A step that sells keys of round r charges the price, pays the fee to the
\* wallet, splits the pot and moves the deadline by the values round r
\* holds, whatever the configuration says by now
UsesSnapshot(r) ==
    games'[r].total_keys > games[r].total_keys =>
        \A g \in {games[r]} :
          \A c \in {calculate_cost(g.total_keys,
                                    games'[r].total_keys - g.total_keys,
                                    g.base_price_lamports,
                                    g.price_increment_lamports).v} :
            \A pot \in {vault'[r] - vault[r] - Credited} :
              /\ grossPaid' - grossPaid = c
              /\ protocolBalance' =
                     [protocolBalance EXCEPT ![g.protocol_wallet] =
                        @ + calculate_bps_split(c, g.protocol_fee_bps)]
              /\ Credited \in
                     {0, calculate_bps_split(vault'[r] - vault[r],
                                             g.referral_bonus_bps)}
              /\ games'[r].winner_pot - g.winner_pot
                     = calculate_bps_split(pot, g.winner_bps)
              /\ games'[r].total_dividend_pool - g.total_dividend_pool
                     = calculate_bps_split(pot, g.dividend_bps)
              /\ games'[r].next_round_pot - g.next_round_pot
                     = calculate_bps_split(pot, g.next_round_bps)
              /\ games'[r].timer_end =
                     calculate_timer_extension(
                         now, g.timer_extension_secs, g.timer_end,
                         g.round_start, g.max_timer_secs)

\* C20: no step (a configuration update in particular) changes a parameter
\* of a round that exists; a round is created with the parameters the
\* configuration holds at that moment; and every purchase in a round is
\* priced, charged, split and timed by the round's own copy, so that an
\* update shows only in rounds created after it.
C20_SnapshotImmutable ==
    [][\A r \in 1..Len(games') :
         IF r \in Created
         THEN KeepsSnapshot(r) /\ UsesSnapshot(r)
         ELSE SameParams(games'[r], config) /\ config' = config]_vars

\* Round 1 was created under the first parameter set and round 2 under the
\* second; keys were sold in both; round 2 is still before its deadline and
\* the configuration has been written back to the first set.
C20_Witness ==
    /\ Len(games) >= 2
    /\ SameParams(games[1], TestParams)
    /\ SameParams(games[2], AltParams)
    /\ SameParams(config, TestParams)
    /\ games[1].total_keys > 0
    /\ games[2].total_keys > 0
    /\ now < games[2].timer_end

\* The parameter sets a caller may pass to create_or_update_config
AnyParams == ParamChoices \cup {AltParams}

\* C21: once an admin is recorded, a configuration write signed by anyone
\* else fails with Unauthorized, whatever the parameters, and no step changes
\* the recorded admin.
C21_Unauthorized ==
    config.admin # NoKey =>
        \A s \in Signers \ {config.admin}, params \in AnyParams :
            create_or_update_config_err(s, params) = "Unauthorized"

C21_AdminKept == config.admin # NoKey => config'.admin = config.admin

C21_OnlyAdminWrites == []C21_Unauthorized /\ [][C21_AdminKept]_vars

\* The admin is recorded, a round runs under the configuration the admin
\* wrote, and a participant who is not the admin is registered.
C21_Witness ==
    /\ config.admin = AdminKey
    /\ Len(games) >= 1
    /\ SameParams(games[1], config)
    /\ players[1].player = 1
    /\ create_or_update_config_err(1, TestParams) = "Unauthorized"

\* The rates of a configuration or of a round's snapshot are well-formed
ValidRates(c) ==
    /\ c.winner_bps + c.dividend_bps + c.next_round_bps = BPS_DENOMINATOR
    /\ c.protocol_fee_bps <= BPS_DENOMINATOR
    /\ c.referral_bonus_bps <= BPS_DENOMINATOR

\* C22: once written, the live configuration has pot rates that sum to
\* 10,000 and fee and referral rates of at most 10,000, and so has every
\* round's snapshot; a write by the admin whose rates are not of that form
\* is rejected with InvalidConfig.
C22_RatesWellFormed ==
    /\ config.admin # NoKey => ValidRates(config)
    /\ \A r \in Created : ValidRates(games[r])
    /\ \A params \in AnyParams :
          ~ValidRates(params) =>
              create_or_update_config_err(
                  IF config.admin = NoKey THEN AdminKey ELSE config.admin,
                  params) = "InvalidConfig"

\* Two rounds have been created under a written configuration, and the
\* admin's writes of the three ill-formed parameter sets are refused.
C22_Witness ==
    /\ config.admin = AdminKey
    /\ Len(games) >= 2
    /\ games[2].total_keys > 0
    /\ \A params \in {BadParams, BadFeeParams, BadReferralParams} :
          /\ ~ValidRates(params)
          /\ create_or_update_config_err(AdminKey, params) = "InvalidConfig"

\* C23 as stated: once the admin is recorded, creating the first round and
\* starting a successor round succeed only for the admin: signed by anyone
\* else, initialize_first_round is rejected as Unauthorized and
\* start_new_round does not succeed.
C23_AdminOnlyTransitions ==
    config.admin # NoKey =>
        \A s \in Signers \ {config.admin} :
            /\ initialize_first_round_err(s) = "Unauthorized"
            /\ \A prev \in Created : start_new_round_err(s, prev) # "Ok"

\* C23 amended: creating the first round is rejected as Unauthorized for
\* every signer but the recorded admin; starting a successor round is never
\* rejected as Unauthorized, whoever signs, and fails only for reasons that
\* have nothing to do with the signer.
C23_OnlyFirstRoundNeedsAdmin ==
    config.admin # NoKey =>
        \A s \in Signers \ {config.admin} :
            /\ initialize_first_round_err(s) = "Unauthorized"
            /\ \A prev \in Created :
                  start_new_round_err(s, prev) \in
                      {"Ok", "GameStillActive", "AccountAlreadyInUse",
                       "InsufficientFunds"}

\* The latest round sold keys and is past its deadline, and a participant
\* who is not the admin can start its successor.
C23_Witness ==
    /\ config.admin = AdminKey
    /\ Len(games) >= 1
    /\ games[Len(games)].total_keys > 0
    /\ initialize_first_round_err(1) = "Unauthorized"
    /\ start_new_round_err(1, Len(games)) = "Ok"

\* C24: the referrer of a registered participant (one whose first purchase
\* has been made) is never changed by any step: no purchase, claim, referral
\* claim or transition, in any round, and not by the membership reset of a
\* claim followed by re-entry.
C24_ReferrerFixed ==
    [][\A p \in Players :
         players[p].player = p =>
             players'[p].referrer = players[p].referrer]_vars

\* A participant bound to a referrer in round 1 has claimed there and has
\* bought into round 2; another, registered without a referrer, has
\* collected referral earnings.
C24_Witness ==
    /\ \E p \in Players :
          /\ players[p].referrer # NoKey
          /\ divPaid[1][p] # <<>>
          /\ players[p].current_round = 2
          /\ players[p].keys > 0
    /\ \E q \in Players :
          /\ players[q].player = q
          /\ players[q].referrer = NoKey
          /\ players[q].claimed_referral_earnings_lamports > 0

\* A purchase by buyer in round r that the membership rules let through:
\* the buyer is registered, the round is before its deadline and the buyer
\* is a member of it or of none
LaterPurchase(buyer, r) ==
    /\ players[buyer].player = buyer
    /\ now < games[r].timer_end
    /\ players[buyer].current_round \in {0, r}

\* C25 as stated: on any purchase after the first (any quantity, with or
\* without a bound referrer) that supplies a referrer other than the bound
\* one, the purchase fails with ReferrerMismatch and changes nothing.
C25_AnyMismatchFails ==
    \A r \in Created, buyer \in Players :
        LaterPurchase(buyer, r) =>
            \A k \in 0..MaxBuy, ref \in Players \ {players[buyer].referrer} :
                \A e \in {PurchaseEffect(buyer, r, k, ref)} :
                    e.err = "ReferrerMismatch" /\ Untouched(e)

\* C25 amended: on a purchase of at least one key after the first, by a
\* participant who has a bound referrer, supplying another referrer fails
\* with ReferrerMismatch and changes nothing; a zero-quantity purchase does
\* not look at the supplied referrer, and a participant without a bound
\* referrer buys as if none had been supplied, still without a referrer
\* afterwards.
C25_MismatchFails ==
    \A r \in Created, buyer \in Players :
        LaterPurchase(buyer, r) =>
            \A k \in 0..MaxBuy, ref \in Players \ {players[buyer].referrer} :
                \A e \in {PurchaseEffect(buyer, r, k, ref)} :
                    IF k > 0 /\ players[buyer].referrer # NoKey
                    THEN e.err = "ReferrerMismatch" /\ Untouched(e)
                    ELSE /\ e.err = "Ok"
                         /\ e.players[buyer].referrer = players[buyer].referrer
                         /\ e.refAccrued = refAccrued

\* A participant bound to the other one holds keys in a round that is
\* before its deadline, and names itself as referrer on the next purchase.
C25_Witness ==
    \E r \in Created, buyer \in Players :
        /\ LaterPurchase(buyer, r)
        /\ players[buyer].referrer \in Players \ {buyer}
        /\ players[buyer].keys > 0
        /\ PurchaseEffect(buyer, r, 1, buyer).err = "ReferrerMismatch"

\* C26: every bound referrer is a registered participant other than the one
\* it refers; a first purchase, before the round's deadline, that names the
\* buyer itself as referrer fails with CannotReferSelf, one that names an
\* unregistered identity fails with ReferrerNotRegistered, and either leaves
\* everything as it was.
C26_ReferrerRegisteredNotSelf ==
    /\ \A p \in Players :
          players[p].referrer # NoKey =>
              /\ players[p].referrer # p
              /\ players[players[p].referrer].player = players[p].referrer
    /\ \A r \in Created, buyer \in Players :
          (players[buyer].player = NoKey /\ now < games[r].timer_end) =>
              \A k \in 0..MaxBuy, ref \in Players :
                  \A e \in {PurchaseEffect(buyer, r, k, ref)} :
                      /\ ref = buyer =>
                            e.err = "CannotReferSelf" /\ Untouched(e)
                      /\ (ref # buyer /\ players[ref].player = NoKey) =>
                            e.err = "ReferrerNotRegistered" /\ Untouched(e)

\* The three pools of round r grow, from the state to the effect e, by the
\* three-way split of `pot`
SplitsPot(e, r, pot) ==
    /\ e.games[r].winner_pot - games[r].winner_pot
          = calculate_bps_split(pot, games[r].winner_bps)
    /\ e.games[r].total_dividend_pool - games[r].total_dividend_pool
          = calculate_bps_split(pot, games[r].dividend_bps)
    /\ e.games[r].next_round_pot - games[r].next_round_pot
          = calculate_bps_split(pot, games[r].next_round_bps)

\* Effect e changes the unclaimed referral balance of `who` by `bonus` and
\* nobody else's
CreditsOnly(e, who, bonus) ==
    \A p \in Players :
        e.players[p].referral_earnings_lamports =
            players[p].referral_earnings_lamports
              + (IF p = who THEN bonus ELSE 0)

PaysBalance(p, r) ==
    \A h \in {handle_claim_referral_earnings(p, r)} :
        /\ h.err = "Ok"
        /\ h.amount = players[p].referral_earnings_lamports
        /\ h.player.referral_earnings_lamports = 0
        /\ h.player.claimed_referral_earnings_lamports =
               players[p].claimed_referral_earnings_lamports + h.amount

\* C28: a referral claim by a registered participant whose unclaimed
\* balance is zero fails with NoReferralEarnings; one whose balance is not
\* zero can be paid: against some round the claim succeeds, pays exactly the
\* balance, zeroes it and adds it to the lifetime claimed total.
C28_ReferralClaimPaysBalance ==
    \A p \in Players :
        players[p].player = p =>
            IF players[p].referral_earnings_lamports = 0
            THEN \A r \in Created :
                     handle_claim_referral_earnings(p, r).err
                         = "NoReferralEarnings"
            ELSE \E r \in Created : PaysBalance(p, r)

\* A step that pays a referral claim: funds leave a vault for a participant
\* and no dividend/winner claim is recorded
ReferralClaimStep == paidOut' # paidOut /\ divPaid' = divPaid

\* A step that pays a dividend/winner claim
RoundClaimStep == divPaid' # divPaid

\* The three pools of round r are what they were
SamePools(r) ==
    /\ games'[r].winner_pot = games[r].winner_pot
    /\ games'[r].total_dividend_pool = games[r].total_dividend_pool
    /\ games'[r].next_round_pot = games[r].next_round_pot

\* Whether a referral claim succeeds is decided by the caller's balance and
\* the vault alone, in an Active round as in an Ended one
C29_StateIndependent ==
    \A p \in Players : \A r \in Created :
        players[p].player = p =>
            (handle_claim_referral_earnings(p, r).err = "Ok"
                <=> /\ players[p].referral_earnings_lamports > 0
                    /\ vault[r] >= players[p].referral_earnings_lamports)

\* A referral claim leaves every participant's holdings and round
\* membership and every round's pools as they were; a dividend/winner claim
\* leaves every participant's unclaimed referral balance as it was
C29_Frame ==
    /\ ReferralClaimStep =>
           /\ \A q \in Players :
                  /\ players'[q].keys = players[q].keys
                  /\ players'[q].current_round = players[q].current_round
           /\ \A r \in Created : SamePools(r)
    /\ RoundClaimStep =>
           \A q \in Players :
               players'[q].referral_earnings_lamports =
                   players[q].referral_earnings_lamports

\* C29: referral claims and dividend/winner claims do not interfere: the
\* round being Active or Ended never decides whether a referral claim
\* succeeds, a referral claim never changes the caller's holdings, round
\* membership or any round pool, and a dividend/winner claim never changes
\* any participant's unclaimed referral balance.
C29_ClaimsIndependent == []C29_StateIndependent /\ [][C29_Frame]_vars

\* One participant has been paid a referral claim and a dividend/winner
\* claim, and a round that a referral claim could be made against is Active
\* while another has Ended
C29_Witness ==
    /\ \E p \in Players :
           /\ players[p].claimed_referral_earnings_lamports > 0
           /\ players[p].claimed_dividends_lamports > 0
    /\ \E r \in Created : games[r].active
    /\ \E r \in Created : ~games[r].active

\* Effect e moves no funds and books nothing
MovesNothing(e) ==
    /\ e.vault = vault
    /\ e.protocolBalance = protocolBalance
    /\ e.grossPaid = grossPaid
    /\ e.divBooked = divBooked
    /\ e.refAccrued = refAccrued

\* Effect e leaves the pools, gross pot, total keys, last buyer and deadline
\* of round r, and every other round, as they are
SameRound(e, r) ==
    /\ e.games[r].winner_pot = games[r].winner_pot
    /\ e.games[r].total_dividend_pool = games[r].total_dividend_pool
    /\ e.games[r].next_round_pot = games[r].next_round_pot
    /\ e.games[r].pot_lamports = games[r].pot_lamports
    /\ e.games[r].total_keys = games[r].total_keys
    /\ e.games[r].last_buyer = games[r].last_buyer
    /\ e.games[r].timer_end = games[r].timer_end
    /\ e.games[r].active = games[r].active
    /\ \A q \in Created \ {r} : e.games[q] = games[q]

\* Effects e0 and e1 give the buyer the same identity, membership and
\* referrer, or fail alike
SameBinding(e0, e1, buyer) ==
    /\ e0.err = e1.err
    /\ e0.players[buyer].player = e1.players[buyer].player
    /\ e0.players[buyer].current_round = e1.players[buyer].current_round
    /\ e0.players[buyer].referrer = e1.players[buyer].referrer

\* C30: a zero-quantity purchase in an Active round, when it succeeds,
\* leaves the buyer registered and a member of the round; for a buyer not
\* yet registered it binds the referrer, or fails, exactly as a first
\* purchase of one key with the same referrer account does; it moves no
\* funds and leaves the round's pools, gross pot, total keys, last buyer
\* and deadline, the buyer's holdings and every other participant unchanged.
C30_ZeroKeyRegistersOnly ==
    \A r \in Created :
        (games[r].active /\ now < games[r].timer_end) =>
            \A buyer \in Players, ref \in Players \cup {NoKey} :
                \A e \in {PurchaseEffect(buyer, r, 0, ref)} :
                    /\ players[buyer].player = NoKey =>
                          SameBinding(e, PurchaseEffect(buyer, r, 1, ref),
                                      buyer)
                    /\ players[buyer].current_round \in {0, r} =>
                          \/ e.err = "Ok"
                          \/ players[buyer].player = NoKey /\ ref # NoKey
                    /\ e.err = "Ok" =>
                          /\ e.players[buyer].player = buyer
                          /\ e.players[buyer].current_round = r
                          /\ players[buyer].player = buyer =>
                                 e.players[buyer].referrer =
                                     players[buyer].referrer
                          /\ e.players[buyer].keys = players[buyer].keys
                          /\ \A q \in Players \ {buyer} :
                                 e.players[q] = players[q]
                          /\ MovesNothing(e)
                          /\ SameRound(e, r)
                    /\ e.err # "Ok" => Untouched(e)

\* A round before its deadline in which keys have been sold holds a member
\* with no keys whose referrer is bound: one who entered by a zero-quantity
\* purchase naming a registered referrer
C30_Witness ==
    \E r \in Created, p \in Players :
        /\ games[r].active /\ now < games[r].timer_end
        /\ games[r].total_keys > 0
        /\ games[r].last_buyer # p
        /\ players[p].current_round = r
        /\ players[p].keys = 0
        /\ players[p].referrer # NoKey
        /\ keysBought[r][p] = 0

\* p is a member of round r, which has ended; p's dividend share is zero and
\* p is not the winner still to be paid
EmptyHanded(p, r) ==
    /\ players[p].player = p
    /\ players[p].current_round = r
    /\ (now >= games[r].timer_end \/ ~games[r].active)
    /\ (players[p].keys * games[r].total_dividend_pool)
           \div Max(games[r].total_keys, 1) = 0
    /\ ~(games[r].last_buyer = p /\ ~games[r].winner_claimed)

\* The claim of such a member is refused with NothingToClaim
C31_Refused ==
    \A r \in Created, p \in Players :
        EmptyHanded(p, r) => handle_claim(p, r).err = "NothingToClaim"

\* While p is such a member no step pays p a claim or changes p's membership
\* or holdings
C31_Kept ==
    \A r \in Created, p \in Players :
        EmptyHanded(p, r) =>
            /\ divPaid'[r][p] = divPaid[r][p]
            /\ winnerPaid'[r] = winnerPaid[r]
               \/ winnerPaid'[r][Len(winnerPaid'[r])] # p
            /\ players'[p].current_round = players[p].current_round
            /\ players'[p].keys = players[p].keys
            /\ players'[p].claimed_dividends_lamports =
                   players[p].claimed_dividends_lamports

\* C31: a claim on an Ended round by a member whose dividend share is zero
\* and who is not the unclaimed winner fails with NothingToClaim, pays
\* nothing, and leaves the member's round membership and holdings unchanged.
C31_NothingToClaim == []C31_Refused /\ [][C31_Kept]_vars

\* A round in which keys were sold has ended with a member who holds none
C31_Witness ==
    \E r \in Created, p \in Players :
        /\ EmptyHanded(p, r)
        /\ games[r].total_keys > 0
        /\ games[r].total_dividend_pool > 0
        /\ now >= games[r].timer_end

\* The participants who bought keys in round r
Holders(r) == {p \in Players : keysBought[r][p] > 0}

\* What is left of round r's dividend pool after the claims paid so far
Dust(r) == games[r].total_dividend_pool - DividendsPaid(r)

\* C32: for any round, the total of dividend shares paid to all claimants
\* never exceeds the round's dividend pool, and once every holder of a round
\* that sold keys has claimed, the unpaid remainder is smaller than the
\* number of holders.
C32_DividendDust ==
    \A r \in Created :
        /\ DividendsPaid(r) <= games[r].total_dividend_pool
        /\ (Holders(r) # {} /\ \A p \in Holders(r) : divPaid[r][p] # <<>>) =>
               Dust(r) < Cardinality(Holders(r))

\* Every participant holds keys of one round, all have claimed, and the
\* divisions have left a remainder in the pool
C32_Witness ==
    \E r \in Created :
        /\ Holders(r) = Players
        /\ \A p \in Players : divPaid[r][p] # <<>> /\ divPaid[r][p][1] > 0
        /\ Dust(r) > 0

\* C33: no purchase ever fails with GameNotActive: in every reachable state
\* a round whose active flag is false has a deadline that is not later than
\* the current time, so a purchase against it takes the lazy-expiry no-op
\* path before the active flag is looked at.
C33_NeverGameNotActive ==
    \A r \in Created :
        /\ ~games[r].active => games[r].timer_end <= now
        /\ \A buyer \in Players, k \in 0..MaxBuy, ref \in Players \cup {NoKey} :
               \A h \in {handle_buy_keys(buyer, r, k, ref)} :
                   /\ h.err # "GameNotActive"
                   /\ ~games[r].active => h.path = "expired"

\* A round has been ended (its flag is false) and has a successor that is
\* still before its deadline
C33_Witness ==
    \E r \in Created :
        /\ ~games[r].active
        /\ r + 1 \in Created
        /\ games[r + 1].active
        /\ now < games[r + 1].timer_end

\* C34: the pricing function is exactly additive: for every supply k and
\* every positive a and b for which the three costs are returned,
\* cost(k, a + b) = cost(k, a) + cost(k + a, b).
C34_CostAdditive ==
    (calc.op = "cost" /\ calc.done /\ calc.a > 0 /\ calc.b > 0
       /\ calc.out.batch.ok /\ calc.out.first.ok /\ calc.out.rest.ok) =>
        calc.out.batch.v = calc.out.first.v + calc.out.rest.v

\* A batch bought at a supply above zero and priced in two unequal parts
C34_Witness ==
    /\ calc.op = "cost" /\ calc.done
    /\ calc.supply > 0 /\ calc.a > 1 /\ calc.b > calc.a
    /\ calc.out.batch.ok /\ calc.out.first.ok /\ calc.out.rest.ok
    /\ calc.out.rest.v > calc.out.first.v

\* The five amounts the fee ordering makes of a cost, added up
Accounted(w) ==
    w.house_fee + w.referral_bonus + w.winner_amount + w.dividend_amount
        + w.next_round_amount

\* C35: for every purchase, protocol fee + referral bonus + winner share +
\* dividend share + carry share is at most the gross cost, and the
\* shortfall is at most 3 units.
C35_DustAtMostThree ==
    (calc.op = "split" /\ calc.done) =>
        /\ Accounted(calc.out) <= calc.cost
        /\ calc.cost - Accounted(calc.out) <= 3

\* A cost split five ways, every amount positive, with units lost to the
\* divisions
C35_Witness ==
    /\ calc.op = "split" /\ calc.done /\ calc.credits
    /\ calc.out.house_fee > 0
    /\ calc.out.referral_bonus > 0
    /\ calc.out.next_round_amount > 0
    /\ calc.cost - Accounted(calc.out) = 2

\* C36 as stated: the pricing function called with quantity 0 fails at
\* every current supply.
C36_ZeroQuantityAlwaysFails ==
    (calc.op = "cost" /\ calc.done /\ calc.a = 0) => ~calc.out.first.ok

\* C36: the pricing function called with quantity 0 fails with the
\* overflow/underflow error when the current supply is 0; at every supply
\* above 0 it returns a cost, and the cost is 0.
C36_ZeroQuantityFailsAtZeroSupply ==
    (calc.op = "cost" /\ calc.done /\ calc.a = 0) =>
        IF calc.supply = 0
        THEN ~calc.out.first.ok
        ELSE calc.out.first.ok /\ calc.out.first.v = 0

\* The pricing has refused quantity 0 at supply 0 and priced a positive
\* quantity at the same supply
C36_Witness ==
    /\ calc.op = "cost" /\ calc.done
    /\ calc.supply = 0 /\ calc.a = 0 /\ calc.b > 0
    /\ ~calc.out.first.ok
    /\ calc.out.rest.ok /\ calc.out.rest.v > 0

\* C37: every member of a round can, once that round has ended, settle by a
\* successful claim (and so reach membership 0, from which a purchase in a
\* later round re-enters); no registered participant is locked out of all
\* future rounds.  After the deadline nothing a claim depends on can turn in
\* the member's favour -- holdings, pools and last buyer are frozen and the
\* vault only shrinks -- so a member can settle eventually exactly if the
\* claim succeeds now.
C37_MemberCanSettle ==
    \A r \in Created, p \in Players :
        (players[p].player = p /\ players[p].current_round = r
           /\ now >= games[r].timer_end) =>
            handle_claim(p, r).err = "Ok"

\* A transition attempt on a round that has a successor fails
C38_SecondAttemptFails ==
    \A r \in Created :
        r + 1 \in Created =>
            \A payer \in Signers :
                start_new_round_err(payer, r) = "AccountAlreadyInUse"

\* Once a round has a successor, no step creates the successor again or
\* moves funds from the round's vault to the successor's
C38_ForwardedOnce ==
    \A r \in Created :
        r + 1 \in Created =>
            /\ Len(games') >= Len(games)
            /\ games'[r + 1].round = r + 1
            /\ games'[r + 1].round_start = games[r + 1].round_start
            /\ ~(vault'[r] < vault[r] /\ vault'[r + 1] > vault[r + 1])

\* C38: each round is transitioned at most once: after its successor
\* exists, every further transition attempt on the same predecessor fails
\* and moves no funds, so a round's carry-over pool is forwarded at most
\* once.
C38_TransitionedOnce == []C38_SecondAttemptFails /\ [][C38_ForwardedOnce]_vars

\* A round that sold keys has been transitioned; it has ended, its vault
\* still holds funds, and the clock has moved on since the transition
C38_Witness ==
    \E r \in Created :
        /\ r + 1 \in Created
        /\ games[r].total_keys > 0
        /\ games[r].next_round_pot > 0
        /\ vault[r] > 0
        /\ vault[r + 1] >= games[r].next_round_pot
        /\ now > games[r + 1].round_start

C40_AtFullLength ==
    \A r \in Created :
        games[r].timer_end = games[r].round_start + games[r].max_timer_secs

\* No step moves the deadline or the start of a round
C40_DeadlineFixed ==
    \A r \in Created :
        /\ games'[r].timer_end = games[r].timer_end
        /\ games'[r].round_start = games[r].round_start

====
